---------------------------- MODULE Spec2Model ----------------------------
(***************************************************************************)
(* Gray-Scott reaction-diffusion simulator of mathatura                    *)
(* (src/src/categories/turing.rs) and the xorshift64 generator it seeds    *)
(* from (src/src/categories/fractals.rs, SimpleRng).                       *)
(*                                                                         *)
(* f64 values are modelled as fixed-point integers in units of 1/Scale,    *)
(* finite in -FMax..FMax, with the three IEEE-754 special values kept as   *)
(* distinct sentinels (PInf, NInf, NaN): a result beyond FMax overflows to *)
(* an infinity, inf - inf and 0 * inf are NaN, and every comparison with   *)
(* NaN is false.  u64 values are modelled as 64 bits, bit i weighing 2^i.  *)
(***************************************************************************)
EXTENDS Integers, Sequences, FiniteSets, TLC

VARIABLES
    pc,         \* "start" | "ready" | "stepping" | "panicked": where the caller is
    width,      \* Grid.width
    height,     \* Grid.height
    cells,      \* Grid.cells, row-major, cells[y*width + x + 1]
    params,     \* the GrayScottParams the caller passes to step / simulate
    cells0,     \* history: Grid.cells as the constructor returned them
    stepsDone,  \* history: number of step calls completed so far
    lastOp,     \* history: the last call made, [op, n]
    got,        \* the last Grid::get call: its arguments, index and result
    newCells,   \* Grid::step's new_cells buffer while a step is in progress
    pending,    \* the cell indices of new_cells the step has yet to write
    rng,        \* SimpleRng.state of the caller's generator
    out,        \* what the generator's last call returned
    calls,      \* history: number of generator calls so far
    det         \* two runs of one program on the same inputs

gridVars == <<pc, width, height, cells, params, cells0, stepsDone, lastOp>>
stepVars == <<newCells, pending>>
rngVars == <<rng, out, calls>>
vars == <<pc, width, height, cells, params, cells0, stepsDone, lastOp,
          got, newCells, pending, rng, out, calls, det>>

-----------------------------------------------------------------------------
(* Bounds of the model *)

MaxSmall == 3       \* grid sides 0..MaxSmall are all tried
MaxSteps == 2       \* at most this many step calls in one behaviour
MaxCoord == 12      \* get is probed at coordinates -MaxCoord..MaxCoord
MaxNewDim == 21     \* Grid::new alone is tried on sides 0..MaxNewDim
MaxParCells == 8    \* a step computed cell by cell is tried on grids up to this size
MaxCalls == 4       \* at most this many calls on one generator
MaxDetCalls == 2    \* next_u64 calls of each of the two runs

BigDims == {10}     \* a side large enough for a seed square
Dims == (0..MaxSmall) \cup BigDims

-----------------------------------------------------------------------------
(* f64 *)

Scale == 1000       \* 1.0 is Scale units
FMax == 40000       \* largest finite magnitude (f64::MAX), in units
PInf == FMax + 1
NInf == -(FMax + 1)
NaN == FMax + 2

One == Scale
IsNaN(x) == x = NaN
IsInf(x) == x = PInf \/ x = NInf
IsFinite(x) == ~IsNaN(x) /\ ~IsInf(x)

\* overflow of a finite result rounds to an infinity
FNorm(n) == IF n > FMax THEN PInf ELSE IF n < -FMax THEN NInf ELSE n

\* round to nearest unit
RoundDiv(n, d) == (n + (d \div 2)) \div d

FNeg(x) == IF IsNaN(x) THEN NaN ELSE -x

FAdd(x, y) ==
    IF IsNaN(x) \/ IsNaN(y) THEN NaN
    ELSE IF IsInf(x) THEN (IF IsInf(y) /\ y # x THEN NaN ELSE x)
    ELSE IF IsInf(y) THEN y
    ELSE FNorm(x + y)

FSub(x, y) == FAdd(x, FNeg(y))

FSign(x) == IF x > 0 THEN 1 ELSE IF x < 0 THEN -1 ELSE 0

FMul(x, y) ==
    IF IsNaN(x) \/ IsNaN(y) THEN NaN
    ELSE IF IsInf(x) \/ IsInf(y)
         THEN (IF x = 0 \/ y = 0 THEN NaN
               ELSE IF FSign(x) * FSign(y) > 0 THEN PInf ELSE NInf)
    ELSE FNorm(RoundDiv(x * y, Scale))

\* x < y and x > y on f64: false when either side is NaN
FLt(x, y) == ~IsNaN(x) /\ ~IsNaN(y) /\ x < y
FGt(x, y) == FLt(y, x)
FLe(x, y) == ~IsNaN(x) /\ ~IsNaN(y) /\ x <= y

\* f64::clamp(self, min, max): NaN stays NaN
clamp(x, lo, hi) ==
    LET y == IF FLt(x, lo) THEN lo ELSE x IN IF FGt(y, hi) THEN hi ELSE y

-----------------------------------------------------------------------------
(* Cell, GrayScottParams, Preset *)

Cell(a, b) == [a |-> a, b |-> b]
Steady == Cell(One, 0)      \* Cell { a: 1.0, b: 0.0 }
Seeded == Cell(0, One)      \* Cell { a: 0.0, b: 1.0 }

GrayScottParams(da, db, feed, kill, dt) ==
    [da |-> da, db |-> db, feed |-> feed, kill |-> kill, dt |-> dt]

Presets == {"Spots", "Stripes", "Coral", "Mitosis", "Worms"}

\* a slip in the table: every preset has the numbers of Spots
Preset_params_flat(p) == GrayScottParams(One, One \div 2, 35, 65, One)

Preset_params(p) ==
    CASE p = "Spots"   -> GrayScottParams(One, One \div 2, 35, 65, One)
      [] p = "Stripes" -> GrayScottParams(One, One \div 2, 40, 60, One)
      [] p = "Coral"   -> GrayScottParams(One, One \div 2, 60, 62, One)
      [] p = "Mitosis" -> GrayScottParams(One, One \div 2, 28, 62, One)
      [] p = "Worms"   -> GrayScottParams(One, One \div 2, 58, 65, One)

Preset_name(p) ==
    CASE p = "Spots"   -> "Leopard Spots"
      [] p = "Stripes" -> "Zebra Stripes"
      [] p = "Coral"   -> "Brain Coral"
      [] p = "Mitosis" -> "Cell Division"
      [] p = "Worms"   -> "Worm Solitons"

-----------------------------------------------------------------------------
(* Grid *)

Min(a, b) == IF a < b THEN a ELSE b
Max(a, b) == IF a > b THEN a ELSE b

\* TLC binds operator arguments lazily: Force(v, e) is e, with v evaluated
\* first, so that a loop's evaluation depth does not grow with its length
Force(v, e) == IF v = v THEN e ELSE e

\* a slip: the larger side is taken
seed_size_max(w, h) == Max(w, h) \div 10

\* Grid::new, line 82
seed_size(w, h) == Min(w, h) \div 10

\* a slip: the seed square starts at the origin
seed_coord_origin(c, s, d) == d

\* Grid::new, lines 85-86: cx - seed_size / 2 + dx on usize.  A negative
\* difference is an underflow: -1 stands for it (the x < width guard of
\* line 87 then never holds, as for the wrapped value of a release build).
seed_coord(c, s, d) == IF c < s \div 2 THEN -1 ELSE c - s \div 2 + d

\* Grid::new, lines 83-91: the set of indices the two loops overwrite
seed_indices(w, h) ==
    LET s == seed_size(w, h)
    IN  { seed_coord(h \div 2, s, dy) * w + seed_coord(w \div 2, s, dx) :
            <<dx, dy>> \in { q \in (0..(s - 1)) \X (0..(s - 1)) :
                /\ seed_coord(w \div 2, s, q[1]) >= 0
                /\ seed_coord(h \div 2, s, q[2]) >= 0
                /\ seed_coord(w \div 2, s, q[1]) < w
                /\ seed_coord(h \div 2, s, q[2]) < h } }

\* a slip in the allocation: width * width cells
Grid_new_square(w, h) == [i \in 1..(w * w) |-> Steady] \o <<>>

\* Grid::new: the cells vector
Grid_new(w, h) ==
    LET seeded == seed_indices(w, h)
    IN  [i \in 1..(w * h) |-> IF (i - 1) \in seeded THEN Seeded ELSE Steady] \o <<>>

\* isize % isize: the remainder takes the sign of the dividend
RustRem(x, n) == IF x >= 0 THEN x % n ELSE -((-x) % n)

\* a slip in the wrap: the magnitude of a negative coordinate
wrap_abs(x, n) == IF x >= 0 THEN x % n ELSE (-x) % n

\* Grid::get, lines 117-118: one axis
wrap(x, n) == (RustRem(x, n) + n) % n

\* Grid::get, line 119: the index into cells
get_index(w, h, x, y) == wrap(y, h) * w + wrap(x, w)

\* Grid::get
get(w, h, cs, x, y) == cs[get_index(w, h, x, y) + 1]

\* Grid::laplacian, lines 128-133
neighbors(w, h, cs, x, y) ==
    << get(w, h, cs, x - 1, y), get(w, h, cs, x + 1, y),
       get(w, h, cs, x, y - 1), get(w, h, cs, x, y + 1) >>

\* iter().sum::<f64>() of four values
Sum4(v1, v2, v3, v4) == FAdd(FAdd(FAdd(FAdd(0, v1), v2), v3), v4)

\* Grid::laplacian
laplacian(w, h, cs, x, y) ==
    LET center == get(w, h, cs, x, y)
        n == neighbors(w, h, cs, x, y)
        la == FSub(Sum4(n[1].a, n[2].a, n[3].a, n[4].a), FMul(4 * One, center.a))
        lb == FSub(Sum4(n[1].b, n[2].b, n[3].b, n[4].b), FMul(4 * One, center.b))
    IN  <<la, lb>>

\* Grid::step, lines 147-155: the new cell for (x, y), read from field cs
step_cell(w, h, cs, p, x, y) ==
    LET cell == cs[y * w + x + 1]
        l == laplacian(w, h, cs, x, y)
        ab2 == FMul(FMul(cell.a, cell.b), cell.b)
        new_a == FAdd(cell.a, FMul(p.dt,
                    FAdd(FSub(FMul(p.da, l[1]), ab2),
                         FMul(p.feed, FSub(One, cell.a)))))
        new_b == FAdd(cell.b, FMul(p.dt,
                    FSub(FAdd(FMul(p.db, l[2]), ab2),
                         FMul(FAdd(p.kill, p.feed), cell.b))))
    IN  Cell(clamp(new_a, 0, One), clamp(new_b, 0, One))

\* Grid::step, lines 147-148: the field the loop body reads is self.cells
StepSourceInPlace(old_cells, new_cells) == new_cells
StepSource(old_cells, new_cells) == old_cells

\* Grid::step, lines 146-156: the inner loop over x, the new cells of row y
step_row(w, h, src, p, y) == [x \in 1..w |-> step_cell(w, h, src, p, x - 1, y)]

\* Grid::step, lines 145-157: the outer loop over y, from row y on; row y of
\* new_cells is overwritten, the other rows are kept
RECURSIVE step_rows(_, _, _, _, _, _)
step_rows(w, h, old_cells, new_cells, p, y) ==
    IF y >= h THEN new_cells
    ELSE LET written ==
                SubSeq(new_cells, 1, y * w)
                    \o step_row(w, h, StepSource(old_cells, new_cells), p, y)
                    \o SubSeq(new_cells, (y + 1) * w + 1, w * h)
         IN  Force(written, step_rows(w, h, old_cells, written, p, y + 1))

\* Grid::step: new_cells starts as a clone and replaces self.cells at the end
step(w, h, cs, p) == step_rows(w, h, cs, cs, p, 0)

\* a slip in the loop range: 0..=steps
RECURSIVE simulate_inclusive(_, _, _, _, _)
simulate_inclusive(w, h, cs, p, steps) ==
    LET stepped == step(w, h, cs, p)
    IN  IF steps = 0 THEN stepped
        ELSE Force(stepped, simulate_inclusive(w, h, stepped, p, steps - 1))

\* Grid::simulate
RECURSIVE simulate(_, _, _, _, _)
simulate(w, h, cs, p, steps) ==
    IF steps = 0 THEN cs
    ELSE LET stepped == step(w, h, cs, p)
         IN  Force(stepped, simulate(w, h, stepped, p, steps - 1))

\* x / y on f64
FDiv(x, y) ==
    IF IsNaN(x) \/ IsNaN(y) THEN NaN
    ELSE IF IsInf(x) THEN (IF IsInf(y) THEN NaN
                           ELSE IF FSign(x) * (IF y < 0 THEN -1 ELSE 1) > 0
                                THEN PInf ELSE NInf)
    ELSE IF IsInf(y) THEN 0
    ELSE IF y = 0 THEN (IF x = 0 THEN NaN ELSE IF x > 0 THEN PInf ELSE NInf)
    ELSE FNorm(FSign(x) * FSign(y)
                 * RoundDiv((x * FSign(x)) * Scale, y * FSign(y)))

\* f64::sqrt
FSqrt(x) ==
    IF IsNaN(x) \/ x < 0 THEN NaN
    ELSE IF x = PInf THEN PInf
    ELSE CHOOSE r \in 0..(x + Scale) :
            r * r <= x * Scale /\ (r + 1) * (r + 1) > x * Scale

\* iter().map(f).sum::<f64>() over the cells lo..hi of one row, in units;
\* f is a function of the cell index
RECURSIVE SumRow(_, _, _)
SumRow(f, lo, hi) == IF lo > hi THEN 0 ELSE f[lo] + SumRow(f, lo + 1, hi)

\* the same over the whole vector, row after row
RECURSIVE SumRows(_, _, _, _)
SumRows(f, w, h, y) ==
    IF y >= h THEN 0
    ELSE SumRow(f, y * w + 1, (y + 1) * w) + SumRows(f, w, h, y + 1)

\* the sum of the terms f[1..w*h], each within [0, 1] or NaN.  A NaN term
\* makes the sum NaN.  The sum of n terms of [0, 1] is at most n, far below
\* f64::MAX, so it never overflows: it is divided by n as a number of units.
MeanOf(f, w, h) ==
    IF \E k \in 1..(w * h) : IsNaN(f[k]) THEN NaN
    ELSE IF w * h = 0 THEN FDiv(0, 0)
    ELSE RoundDiv(SumRows(f, w, h, 0), w * h)

\* Grid::averages
averages(w, h, cs) ==
    << MeanOf([k \in 1..(w * h) |-> cs[k].a], w, h),
       MeanOf([k \in 1..(w * h) |-> cs[k].b], w, h) >>

\* Grid::contrast
contrast(w, h, cs) ==
    LET avg_b == averages(w, h, cs)[2]
        variance == MeanOf([k \in 1..(w * h) |->
                              FMul(FSub(cs[k].b, avg_b), FSub(cs[k].b, avg_b))], w, h)
    IN  FSqrt(variance)

-----------------------------------------------------------------------------
(* u64 and SimpleRng *)

WordBits == 64
Bits == 0..(WordBits - 1)

\* a u64 is the tuple of its bits, bit i (weight 2^i) at index i + 1
Word(f) == [k \in 1..WordBits |-> f[k - 1]] \o <<>>
Bit(s, i) == s[i + 1]

\* the u64 whose set bits are S
U64FromBits(S) == Word([i \in Bits |-> IF i \in S THEN 1 ELSE 0])
\* the u64 of a natural number below 2^31
U64FromNat(n) == Word([i \in Bits |-> IF i < 31 THEN (n \div (2 ^ i)) % 2 ELSE 0])
U64Zero == U64FromBits({})
U64One == U64FromBits({0})

\* the 16 bits of s from bit base up, as a number
RECURSIVE LimbFrom(_, _, _)
LimbFrom(s, base, j) ==
    IF j >= 16 THEN 0 ELSE Bit(s, base + j) + 2 * LimbFrom(s, base, j + 1)
Limb(s, k) == LimbFrom(s, 16 * k, 0)

\* s % n for a u64 s and 0 < n <= 2^15
U64Mod(s, n) ==
    LET r3 == Limb(s, 3) % n
        r2 == (r3 * 65536 + Limb(s, 2)) % n
        r1 == (r2 * 65536 + Limb(s, 1)) % n
    IN  (r1 * 65536 + Limb(s, 0)) % n

\* the u64 with the four 16-bit limbs l3 (top) .. l0
U64FromLimbs(l3, l2, l1, l0) ==
    LET l == <<l0, l1, l2, l3>>
    IN  Word([i \in Bits |-> (l[(i \div 16) + 1] \div (2 ^ (i % 16))) % 2])

\* a slip: the seed is taken as it is
SimpleRng_new_raw(seed) == seed

\* a slip: one generator shared by every caller, seeded by the first
SimpleRng_new_shared(seed) ==
    IF det # <<>> /\ \E r \in 1..2 : det.run[r].pc # "start"
    THEN LET r == CHOOSE q \in 1..2 : det.run[q].pc # "start" IN det.run[r].rng
    ELSE IF seed = U64Zero THEN U64One ELSE seed

\* a slip: the low bit is set, seed | 1
SimpleRng_new_odd(seed) == [seed EXCEPT ![1] = 1]

\* SimpleRng::new: the state is seed.max(1)
SimpleRng_new(seed) == IF seed = U64Zero THEN U64One ELSE seed

\* SimpleRng::next_u64, lines 250-252: bit i of the state after each of
\* the three xor-shift statements
xs1(s, i) == (Bit(s, i) + (IF i >= 13 THEN Bit(s, i - 13) ELSE 0)) % 2
\* a slip in the second statement: s ^= s << 7
xs2_shl(s, i) == (xs1(s, i) + (IF i >= 7 THEN xs1(s, i - 7) ELSE 0)) % 2
xs2(s, i) == (xs1(s, i) + (IF i + 7 < WordBits THEN xs1(s, i + 7) ELSE 0)) % 2
xs3(s, i) == (xs2(s, i) + (IF i >= 17 THEN xs2(s, i - 17) ELSE 0)) % 2

\* SimpleRng::next_u64: the new state, which is also the value returned
next_u64(state) == Word([i \in Bits |-> xs3(state, i)])

\* SimpleRng::next_f64 on the state next_u64 left: the value returned,
\* (state as f64) / (u64::MAX as f64).  u64::MAX as f64 is 2^64, and a state
\* rounds to 2^64 (53-bit mantissa, ties to even) exactly when its bits
\* 10..63 are all set: is_one.  units is the quotient in fixed point, from
\* the top 16 bits, rounded down.
next_f64(state) ==
    [is_one |-> \A i \in 10..(WordBits - 1) : Bit(state, i) = 1,
     is_zero |-> state = U64Zero,
     units |-> (Limb(state, 3) * Scale) \div 65536]

\* a slip: the raw value is cut to its low 16 bits first
next_usize_low(state, bound) == Limb(state, 0) % bound

\* SimpleRng::next_usize on the state next_u64 left: the value returned
next_usize(state, bound) == U64Mod(state, bound)

-----------------------------------------------------------------------------
(* Grid::new_random *)

\* a slip in the clipping: each coordinate wrapped round the edge
blot_indices_wrap(w, h, cx, cy, size) ==
    { ((cy + dy) % h) * w + ((cx + dx) % w) :
        <<dx, dy>> \in (0..(size - 1)) \X (0..(size - 1)) }

\* lines 104-110: the indices one blot writes, each coordinate clamped
blot_indices(w, h, cx, cy, size) ==
    { Min(cy + dy, h - 1) * w + Min(cx + dx, w - 1) :
        <<dx, dy>> \in (0..(size - 1)) \X (0..(size - 1)) }

\* lines 101-103: the three draws of one blot, from generator state gen
blot_draw(w, h, gen) ==
    LET s1 == next_u64(gen)
        s2 == next_u64(s1)
        s3 == next_u64(s2)
    IN  [cx |-> next_usize(s1, w), cy |-> next_usize(s2, h),
         size |-> 3 + next_usize(s3, 8), gen |-> s3, raw |-> <<s1, s2, s3>>]

\* lines 100-111: the blots from the i-th on
RECURSIVE blot_loop(_, _, _, _, _)
blot_loop(w, h, cs, gen, i) ==
    IF i >= 5 THEN [cells |-> cs, gen |-> gen]
    ELSE LET d == blot_draw(w, h, gen)
             ix == blot_indices(w, h, d.cx, d.cy, d.size)
             stamped == [k \in 1..(w * h) |->
                            IF (k - 1) \in ix THEN Seeded ELSE cs[k]] \o <<>>
         IN  Force(stamped, blot_loop(w, h, stamped, d.gen, i + 1))

\* a slip: the blots write the half-strength seed (a = 0.5, b = 0.25)
Grid_new_random_half(w, h, seed) ==
    LET r == blot_loop(w, h, Grid_new(w, h), SimpleRng_new(seed), 0).cells
    IN  [k \in 1..(w * h) |->
            IF r[k] = Seeded THEN Cell(One \div 2, One \div 4) ELSE r[k]] \o <<>>

\* Grid::new_random for width, height > 0: the cells vector
Grid_new_random(w, h, seed) ==
    blot_loop(w, h, Grid_new(w, h), SimpleRng_new(seed), 0).cells

\* Grid::new_random panics in next_usize (remainder by zero) when a side is 0
new_random_panics(w, h) == w = 0 \/ h = 0

-----------------------------------------------------------------------------
(* The caller: one grid is constructed, then stepped *)

Overflowing == GrayScottParams(One, One \div 2, FMax, FMax, One)
Negative == GrayScottParams(-One, -(One \div 2), 35, 65, -One)
ParamSet == {Preset_params("Spots"), Preset_params("Coral"), Overflowing, Negative}

Seeds == {U64FromNat(0), U64FromNat(1), U64FromNat(42)}

Op(name, n) == [op |-> name, n |-> n]

NoGet == [x |-> 0, y |-> 0, index |-> -1, cell |-> Steady]
NoOut == [kind |-> "none"]
NoDet == <<>>

\* the parts of the state a specification does not use
GetIdle == got = NoGet
StepIdle == newCells = <<>> /\ pending = {}
RngIdle == rng = U64Zero /\ out = NoOut /\ calls = 0
DetIdle == det = NoDet

GridInit ==
    /\ pc = "start"
    /\ width = 0
    /\ height = 0
    /\ cells = <<>>
    /\ params \in ParamSet
    /\ cells0 = <<>>
    /\ stepsDone = 0
    /\ lastOp = Op("none", 0)

Init == GridInit /\ GetIdle /\ StepIdle /\ RngIdle /\ DetIdle

\* let mut grid = Grid::new(w, h)
New(w, h) ==
    /\ pc = "start"
    /\ pc' = "ready"
    /\ width' = w
    /\ height' = h
    /\ cells' = Grid_new(w, h)
    /\ cells0' = cells'
    /\ lastOp' = Op("new", 0)
    /\ UNCHANGED <<params, stepsDone, got, stepVars, rngVars, det>>

\* let mut grid = Grid::new_random(w, h, seed)
NewRandom(w, h, seed) ==
    /\ pc = "start"
    /\ lastOp' = Op("new_random", 0)
    /\ IF new_random_panics(w, h)
       THEN /\ pc' = "panicked"
            /\ UNCHANGED <<width, height, cells, cells0>>
       ELSE /\ pc' = "ready"
            /\ width' = w
            /\ height' = h
            /\ cells' = Grid_new_random(w, h, seed)
            /\ cells0' = cells'
    /\ UNCHANGED <<params, stepsDone, got, stepVars, rngVars, det>>

\* grid.step(&params)
Step ==
    /\ pc = "ready"
    /\ stepsDone < MaxSteps
    /\ cells' = step(width, height, cells, params)
    /\ stepsDone' = stepsDone + 1
    /\ lastOp' = Op("step", 1)
    /\ UNCHANGED <<pc, width, height, params, cells0, got, stepVars, rngVars, det>>

\* grid.simulate(&params, n)
Simulate(n) ==
    /\ pc = "ready"
    /\ stepsDone + n <= MaxSteps
    /\ cells' = simulate(width, height, cells, params, n)
    /\ stepsDone' = stepsDone + n
    /\ lastOp' = Op("simulate", n)
    /\ UNCHANGED <<pc, width, height, params, cells0, got, stepVars, rngVars, det>>

Next ==
    \/ \E w \in Dims, h \in Dims : New(w, h)
    \/ \E w \in Dims, h \in Dims, seed \in Seeds : NewRandom(w, h, seed)
    \/ Step
    \/ \E n \in 0..MaxSteps : Simulate(n)

Spec == Init /\ [][Next]_vars

-----------------------------------------------------------------------------
(* The same caller with parameters outside the documented ranges            *)
(* (SpecGarbage): step does not look at the parameters before using them    *)

NegativeHuge == GrayScottParams(-FMax, -FMax, 35, 65, -FMax)
NegativeOverflowing == GrayScottParams(-One, -(One \div 2), FMax, FMax, -One)
GarbageSet == {Negative, NegativeHuge, NegativeOverflowing}

InitGarbage ==
    /\ pc = "start"
    /\ width = 0
    /\ height = 0
    /\ cells = <<>>
    /\ params \in GarbageSet
    /\ cells0 = <<>>
    /\ stepsDone = 0
    /\ lastOp = Op("none", 0)
    /\ GetIdle /\ StepIdle /\ RngIdle /\ DetIdle

SpecGarbage == InitGarbage /\ [][Next]_vars

-----------------------------------------------------------------------------
(* A caller that measures the field it has built and stepped (SpecMetric) *)

\* let (avg_a, avg_b) = grid.averages()
Averages ==
    /\ pc = "ready"
    /\ pc' = "measured"
    /\ out' = [kind |-> "averages", val |-> averages(width, height, cells)]
    /\ UNCHANGED <<width, height, cells, params, cells0, stepsDone, lastOp,
                   got, stepVars, rng, calls, det>>

\* let c = grid.contrast()
Contrast ==
    /\ pc = "ready"
    /\ pc' = "measured"
    /\ out' = [kind |-> "contrast", val |-> contrast(width, height, cells)]
    /\ UNCHANGED <<width, height, cells, params, cells0, stepsDone, lastOp,
                   got, stepVars, rng, calls, det>>

NextMetric ==
    \/ \E w \in Dims, h \in Dims : New(w, h)
    \/ \E w \in Dims, h \in Dims : NewRandom(w, h, U64FromNat(42))
    \/ Step
    \/ Averages
    \/ Contrast

InitMetric == Init /\ params \in {Preset_params("Spots"), Overflowing}

SpecMetric == InitMetric /\ [][NextMetric]_vars

-----------------------------------------------------------------------------
(* The turing command of main.rs (SpecPreset): the preset is picked from   *)
(* its name, a square grid is built, and it is simulated with the preset's *)
(* parameters                                                              *)

PresetStrings == {"spots", "stripes", "coral", "mitosis", "worms", "zebra"}

\* main.rs, lines 170-176: match preset.as_str()
PresetFromStr(str) ==
    CASE str = "stripes" -> "Stripes"
      [] str = "coral"   -> "Coral"
      [] str = "mitosis" -> "Mitosis"
      [] str = "worms"   -> "Worms"
      [] OTHER           -> "Spots"

\* let p = match preset.as_str() { ... }; p.params(), p.name()
CmdPreset(str) ==
    /\ pc = "start"
    /\ out.kind = "none"
    /\ out' = [kind |-> "preset", preset |-> PresetFromStr(str),
               name |-> Preset_name(PresetFromStr(str))]
    /\ params' = Preset_params(PresetFromStr(str))
    /\ UNCHANGED <<pc, width, height, cells, cells0, stepsDone, lastOp,
                   got, stepVars, rng, calls, det>>

NextPreset ==
    \/ \E str \in PresetStrings : CmdPreset(str)
    \/ \E size \in Dims : out.kind = "preset" /\ New(size, size)
    \/ \E size \in Dims : out.kind = "preset" /\ NewRandom(size, size, U64FromNat(42))
    \/ \E n \in 0..MaxSteps : Simulate(n)

InitPreset == Init /\ params = Preset_params("Spots")

SpecPreset == InitPreset /\ [][NextPreset]_vars

-----------------------------------------------------------------------------
(* Grid::new alone, on every pair of sides up to MaxNewDim *)

\* and on the 50 x 50 grid of test_grid_has_seed
NewDims == (0..MaxNewDim) \cup {50}

NextNew == \E w \in NewDims, h \in NewDims : New(w, h)

SpecNew == Init /\ [][NextNew]_vars

-----------------------------------------------------------------------------
(* Grid::get on a constructed grid *)

\* grid.get(x, y), once in a behaviour: the remainder by a zero side panics
Get(x, y) ==
    /\ pc = "ready"
    /\ got.index < 0
    /\ lastOp' = Op("get", 0)
    /\ IF width = 0 \/ height = 0
       THEN /\ pc' = "panicked"
            /\ UNCHANGED got
       ELSE /\ got' = [x |-> x, y |-> y,
                       index |-> get_index(width, height, x, y),
                       cell |-> get(width, height, cells, x, y)]
            /\ UNCHANGED pc
    /\ UNCHANGED <<width, height, cells, params, cells0, stepsDone,
                   stepVars, rngVars, det>>

Coords == (-MaxCoord)..MaxCoord

NextGet ==
    \/ \E w \in Dims, h \in Dims : New(w, h)
    \/ \E w \in Dims, h \in Dims : NewRandom(w, h, U64FromNat(42))
    \/ \E x \in Coords, y \in Coords : Get(x, y)

InitGet == Init /\ params = Preset_params("Spots")

SpecGet == InitGet /\ [][NextGet]_vars

-----------------------------------------------------------------------------
(* A step whose cells are computed one at a time, in any order (SpecPar):  *)
(* the loop body of Grid::step, lines 147-155, run for each index once,    *)
(* between the clone of line 144 and the replacement of line 158.          *)

ParDims == { d \in (1..MaxParCells) \X (1..MaxParCells) : d[1] * d[2] <= MaxParCells }

\* line 144: let mut new_cells = self.cells.clone()
StepBegin ==
    /\ pc = "ready"
    /\ stepsDone < MaxSteps
    /\ pc' = "stepping"
    /\ newCells' = cells
    /\ pending' = 1..Len(cells)
    /\ UNCHANGED <<width, height, cells, params, cells0, stepsDone, lastOp,
                   got, rngVars, det>>

\* lines 147-155 for the cell of index k
StepCell(k) ==
    /\ pc = "stepping"
    /\ k \in pending
    /\ newCells' = [newCells EXCEPT ![k] =
            step_cell(width, height, StepSource(cells, newCells), params,
                      (k - 1) % width, (k - 1) \div width)]
    /\ pending' = pending \ {k}
    /\ UNCHANGED <<gridVars, got, rngVars, det>>

\* line 158: self.cells = new_cells, once every cell is written
StepEnd ==
    /\ pc = "stepping"
    /\ pending = {}
    /\ pc' = "ready"
    /\ cells' = newCells
    /\ newCells' = <<>>
    /\ stepsDone' = stepsDone + 1
    /\ lastOp' = Op("step", 1)
    /\ UNCHANGED <<width, height, params, cells0, pending, got, rngVars, det>>

NextPar ==
    \/ \E d \in ParDims : NewRandom(d[1], d[2], U64FromNat(42))
    \/ StepBegin
    \/ \E k \in 1..MaxParCells : StepCell(k)
    \/ StepEnd

SpecPar == Init /\ [][NextPar]_vars

-----------------------------------------------------------------------------
(* A caller of SimpleRng (SpecRng) *)

\* a seed whose first next_u64 is u64::MAX, and seeds with high bits set
SeedToMax == U64FromLimbs(27179, 20837, 3017, 40388)
RngSeeds == Seeds \cup {U64FromBits({63}), U64FromBits(Bits), SeedToMax}
RngBounds == Dims \cup {8}

InitRng == Init /\ params = Preset_params("Spots")

\* let mut rng = SimpleRng::new(seed)
RngNew(seed) ==
    /\ pc = "start"
    /\ pc' = "ready"
    /\ rng' = SimpleRng_new(seed)
    /\ out' = [kind |-> "new"]
    /\ lastOp' = Op("rng_new", 0)
    /\ UNCHANGED <<width, height, cells, params, cells0, stepsDone, calls,
                   got, stepVars, det>>

\* rng.next_u64()
RngNextU64 ==
    /\ pc = "ready"
    /\ calls < MaxCalls
    /\ rng' = next_u64(rng)
    /\ out' = [kind |-> "u64", val |-> rng']
    /\ calls' = calls + 1
    /\ UNCHANGED <<gridVars, got, stepVars, det>>

\* rng.next_f64()
RngNextF64 ==
    /\ pc = "ready"
    /\ calls < MaxCalls
    /\ rng' = next_u64(rng)
    /\ out' = [kind |-> "f64", val |-> next_f64(rng')]
    /\ calls' = calls + 1
    /\ UNCHANGED <<gridVars, got, stepVars, det>>

\* rng.next_usize(bound): the remainder by a zero bound panics, after the
\* state has advanced
RngNextUsize(bound) ==
    /\ pc = "ready"
    /\ calls < MaxCalls
    /\ rng' = next_u64(rng)
    /\ calls' = calls + 1
    /\ IF bound = 0
       THEN /\ pc' = "panicked"
            /\ out' = [kind |-> "panic"]
       ELSE /\ pc' = pc
            /\ out' = [kind |-> "usize", bound |-> bound,
                       val |-> next_usize(rng', bound)]
    /\ UNCHANGED <<width, height, cells, params, cells0, stepsDone, lastOp,
                   got, stepVars, det>>

NextRng ==
    \/ \E seed \in RngSeeds : RngNew(seed)
    \/ RngNextU64
    \/ RngNextF64
    \/ \E bound \in RngBounds : RngNextUsize(bound)

SpecRng == InitRng /\ [][NextRng]_vars

-----------------------------------------------------------------------------
(* Two runs of one program on the same inputs (SpecDet): each makes a      *)
(* generator and draws from it, as test_simple_rng_deterministic does, and *)
(* then builds and simulates a grid, as the turing command of main.rs does *)

DetDims == (1..MaxSmall) \X (1..MaxSmall)
DetParams == {Preset_params("Spots"), Preset_params("Coral")}

DetRun0 == [pc |-> "start", rng |-> U64Zero, outs |-> <<>>, cells |-> <<>>, n |-> 0]

InitDet ==
    /\ GridInit /\ params = Preset_params("Spots")
    /\ GetIdle /\ StepIdle /\ RngIdle
    /\ \E d \in DetDims, seed \in Seeds, p \in DetParams :
         det = [w |-> d[1], h |-> d[2], seed |-> seed, params |-> p,
                run |-> <<DetRun0, DetRun0>>]

DetSet(r, rec) == det' = [det EXCEPT !.run[r] = rec]
DetRest == UNCHANGED <<gridVars, got, stepVars, rngVars>>

\* let mut a = SimpleRng::new(seed)
DetRngNew(r) ==
    /\ det.run[r].pc = "start"
    /\ DetSet(r, [det.run[r] EXCEPT !.pc = "rng", !.rng = SimpleRng_new(det.seed)])
    /\ DetRest

\* a.next_u64()
DetNextU64(r) ==
    /\ det.run[r].pc = "rng"
    /\ Len(det.run[r].outs) < MaxDetCalls
    /\ LET v == next_u64(det.run[r].rng)
       IN  DetSet(r, [det.run[r] EXCEPT !.rng = v, !.outs = Append(@, v)])
    /\ DetRest

\* let mut grid = Grid::new_random(w, h, seed)
DetNewRandom(r) ==
    /\ det.run[r].pc = "rng"
    /\ Len(det.run[r].outs) = MaxDetCalls
    /\ DetSet(r, [det.run[r] EXCEPT !.pc = "grid",
                    !.cells = Grid_new_random(det.w, det.h, det.seed)])
    /\ DetRest

\* grid.simulate(&params, n)
DetSimulate(r, n) ==
    /\ det.run[r].pc = "grid"
    /\ DetSet(r, [det.run[r] EXCEPT !.pc = "done", !.n = n,
                    !.cells = simulate(det.w, det.h, @, det.params, n)])
    /\ DetRest

NextDet ==
    \E r \in 1..2 :
        \/ DetRngNew(r)
        \/ DetNextU64(r)
        \/ DetNewRandom(r)
        \/ \E n \in 0..MaxSteps : DetSimulate(r, n)

SpecDet == InitDet /\ [][NextDet]_vars

-----------------------------------------------------------------------------
(* Grid::new_random blot by blot (SpecBlot): lines 97-98, then one          *)
(* iteration of the loop of lines 100-111 at a time, then the return        *)

NoBlots(seed) == [kind |-> "blots", seed |-> seed, draws |-> <<>>]

\* lines 97-98: let mut grid = Self::new(width, height); let mut rng = ...
BlotBegin(w, h, seed) ==
    /\ pc = "start"
    /\ pc' = "blotting"
    /\ width' = w
    /\ height' = h
    /\ cells' = Grid_new(w, h)
    /\ rng' = SimpleRng_new(seed)
    /\ out' = NoBlots(seed)
    /\ lastOp' = Op("new_random", 0)
    /\ UNCHANGED <<params, cells0, stepsDone, calls, got, stepVars, det>>

\* lines 101-110: one blot; the first draw with a zero bound panics, after
\* the state has advanced
Blot ==
    /\ pc = "blotting"
    /\ Len(out.draws) < 5
    /\ IF new_random_panics(width, height)
       THEN /\ pc' = "panicked"
            /\ rng' = IF width = 0 THEN next_u64(rng) ELSE next_u64(next_u64(rng))
            /\ calls' = IF width = 0 THEN calls + 1 ELSE calls + 2
            /\ UNCHANGED <<cells, out>>
       ELSE LET d == blot_draw(width, height, rng)
                ix == blot_indices(width, height, d.cx, d.cy, d.size)
            IN  /\ cells' = [k \in 1..(width * height) |->
                                IF (k - 1) \in ix THEN Seeded ELSE cells[k]] \o <<>>
                /\ rng' = d.gen
                /\ calls' = calls + 3
                /\ out' = [out EXCEPT !.draws =
                              Append(@, [cx |-> d.cx, cy |-> d.cy, size |-> d.size,
                                         raw |-> d.raw, written |-> ix])]
                /\ UNCHANGED pc
    /\ UNCHANGED <<width, height, params, cells0, stepsDone, lastOp,
                   got, stepVars, det>>

\* line 112: the grid is returned after the fifth blot
BlotEnd ==
    /\ pc = "blotting"
    /\ Len(out.draws) = 5
    /\ pc' = "ready"
    /\ cells0' = cells
    /\ UNCHANGED <<width, height, cells, params, stepsDone, lastOp,
                   got, stepVars, rngVars, det>>

NextBlot ==
    \/ \E w \in Dims, h \in Dims, seed \in Seeds : BlotBegin(w, h, seed)
    \/ Blot
    \/ BlotEnd

InitBlot == Init /\ params = Preset_params("Spots")

SpecBlot == InitBlot /\ [][NextBlot]_vars

-----------------------------------------------------------------------------
(* Claims about Grid::step, Grid::simulate and the shape of the grid (Spec) *)

\* x mod n with a non-negative remainder
Mod(x, n) == x % n

InUnit(v) == ~IsNaN(v) /\ 0 <= v /\ v <= One

ValidParams(p) ==
    /\ IsFinite(p.da) /\ IsFinite(p.db) /\ IsFinite(p.dt)
    /\ IsFinite(p.feed) /\ IsFinite(p.kill)
    /\ p.da > 0 /\ p.db > 0 /\ p.dt > 0 /\ p.feed >= 0 /\ p.kill >= 0

\* the cell at (x, y) of field cs, on the torus
C1_At(w, h, cs, x, y) == cs[Mod(y, h) * w + Mod(x, w) + 1]

\* the 5-point Laplacian of channel ch ("a" or "b") of field cs at (x, y)
C1_Lap(w, h, cs, x, y, ch) ==
    FSub(FAdd(FAdd(FAdd(FAdd(0, C1_At(w, h, cs, x - 1, y)[ch]),
                        C1_At(w, h, cs, x + 1, y)[ch]),
                   C1_At(w, h, cs, x, y - 1)[ch]),
              C1_At(w, h, cs, x, y + 1)[ch]),
         FMul(4 * One, C1_At(w, h, cs, x, y)[ch]))

\* the Gray-Scott update of cell (x, y) from field cs
C1_Update(w, h, cs, p, x, y) ==
    LET a == C1_At(w, h, cs, x, y).a
        b == C1_At(w, h, cs, x, y).b
        abb == FMul(FMul(a, b), b)
        na == FAdd(a, FMul(p.dt, FAdd(FSub(FMul(p.da, C1_Lap(w, h, cs, x, y, "a")), abb),
                                      FMul(p.feed, FSub(One, a)))))
        nb == FAdd(b, FMul(p.dt, FSub(FAdd(FMul(p.db, C1_Lap(w, h, cs, x, y, "b")), abb),
                                      FMul(FAdd(p.kill, p.feed), b))))
    IN  Cell(clamp(na, 0, One), clamp(nb, 0, One))

\* C1: a step is a simultaneous update: every cell of the field after a step
\* call is the clamped Gray-Scott update computed from the field as it was
\* before the call, with the 5-point toroidal Laplacian.
C1_SimultaneousUpdate ==
    [][lastOp'.op = "step" =>
         /\ Len(cells') = width * height
         /\ \A x \in 0..(width - 1), y \in 0..(height - 1) :
              cells'[y * width + x + 1] = C1_Update(width, height, cells, params, x, y)]_vars

\* a step has changed a field in which the cells were not all alike
C1_Witness ==
    /\ lastOp.op = "step"
    /\ stepsDone = 2
    /\ cells # cells0
    /\ \E i, j \in 1..Len(cells0) : cells0[i] # cells0[j]
    /\ width >= 2 /\ height >= 2

\* C2 as claimed: with valid parameters every cell stays within [0, 1] after
\* construction and after every step.
C2_Bounds ==
    (pc = "ready" /\ width > 0 /\ height > 0 /\ ValidParams(params)) =>
        \A k \in 1..Len(cells) : InUnit(cells[k].a) /\ InUnit(cells[k].b)

\* step applied n times
RECURSIVE C4_StepTimes(_, _, _, _, _)
C4_StepTimes(w, h, cs, p, n) ==
    IF n = 0 THEN cs ELSE step(w, h, C4_StepTimes(w, h, cs, p, n - 1), p)

\* C4: whatever sequence of step and simulate(n) calls was made, the field is
\* the constructed field with step applied exactly as many times as the
\* calls asked for in total (simulate(0) changes nothing, simulate(n) then
\* simulate(m) is simulate(n + m)).
C4_ExactlyNSteps ==
    pc = "ready" => cells = C4_StepTimes(width, height, cells0, params, stepsDone)

\* a simulate call of one or more steps that followed earlier steps
C4_Witness ==
    /\ lastOp.op = "simulate"
    /\ lastOp.n >= 1
    /\ stepsDone > lastOp.n
    /\ cells # cells0

\* C6: a constructed grid has width * height cells, and no later call
\* changes width or height.
C6_Shape ==
    /\ [](pc = "ready" => Len(cells) = width * height)
    /\ [][pc = "ready" => (width' = width /\ height' = height)]_vars

\* a grid that is not square, after two steps
C6_Witness ==
    /\ pc = "ready"
    /\ stepsDone = 2
    /\ width # height
    /\ Len(cells) = width * height
    /\ Len(cells) > 0

-----------------------------------------------------------------------------
(* Claims about Grid::new (SpecNew) *)

\* the centred square of side s: the cells (x, y) in it
C7_Square(w, h, s) ==
    { <<x, y>> \in (0..(w - 1)) \X (0..(h - 1)) :
        /\ (w \div 2) - (s \div 2) <= x /\ x < (w \div 2) - (s \div 2) + s
        /\ (h \div 2) - (s \div 2) <= y /\ y < (h \div 2) - (s \div 2) + s }

\* C7 as claimed: the seed square has side min(width, height) / 10 but at
\* least 1, so every grid has a seeded cell.
C7_SeedAtLeastOne ==
    (pc = "ready" /\ lastOp.op = "new" /\ width > 0 /\ height > 0) =>
        LET sq == C7_Square(width, height, Max(1, Min(width, height) \div 10))
        IN  /\ sq # {}
            /\ \A x \in 0..(width - 1), y \in 0..(height - 1) :
                 cells[y * width + x + 1] =
                    IF <<x, y>> \in sq THEN Seeded ELSE Steady

\* C8 as claimed: Grid::new with a zero side never returns a grid.
C8_ZeroRejected ==
    (lastOp.op = "new" /\ (width = 0 \/ height = 0)) => pc # "ready"

-----------------------------------------------------------------------------
(* Claims about Grid::get (SpecGet) *)

\* C5: get(x, y) returns, for every signed pair, the cell at index
\* (y mod height) * width + (x mod width), which is within the vector, and
\* shifting x by a multiple of width or y by a multiple of height returns
\* the same cell.
C5_Toroidal ==
    got.index >= 0 =>
        /\ got.index = Mod(got.y, height) * width + Mod(got.x, width)
        /\ got.index < Len(cells)
        /\ got.cell = cells[got.index + 1]
        /\ \A i \in -2..2, j \in -2..2 :
             get_index(width, height, got.x + i * width, got.y + j * height)
                = got.index

\* a get left of column 0 and below the last row
C5_Witness ==
    /\ got.index >= 0
    /\ got.x < 0
    /\ got.y >= height
    /\ width >= 2 /\ height >= 2

-----------------------------------------------------------------------------
(* Claim about a step computed cell by cell in any order (SpecPar) *)

\* C3: whatever the order in which the cells of a step are computed, each
\* from the previous field into the new buffer, the field that replaces the
\* old one is the result of the sequential step, and until it is replaced
\* the field is still the whole previous one.
C3_ParallelSafe ==
    pc \in {"ready", "stepping"} =>
        cells = C4_StepTimes(width, height, cells0, params, stepsDone)

\* the first cell is computed last, after all the others have changed
C3_Witness ==
    /\ pc = "stepping"
    /\ pending = {1}
    /\ Len(cells) >= 4
    /\ \A k \in 2..Len(cells) : newCells[k] # cells[k]

-----------------------------------------------------------------------------
(* Claims about SimpleRng (SpecRng) *)

\* C10: the state of a generator is never 0, whatever the seed and the
\* calls made, so next_u64 never returns 0 and the next state differs from
\* the present one.
C10_StateNonZero ==
    pc \in {"ready", "panicked"} =>
        /\ rng # U64Zero
        /\ out.kind = "u64" => out.val # U64Zero
        /\ next_u64(rng) # rng

\* two calls after a zero seed
C10_Witness ==
    /\ pc = "ready"
    /\ calls = 2
    /\ out.kind = "f64"
    /\ rng = next_u64(next_u64(SimpleRng_new(U64Zero)))

-----------------------------------------------------------------------------
(* Claim about two runs on the same inputs (SpecDet) *)

RECURSIVE C11_Iter(_, _)
C11_Iter(s, k) == IF k = 0 THEN s ELSE next_u64(C11_Iter(s, k - 1))

\* C11: a generator made from seed 0 starts from state 1 and returns what a
\* generator made from seed 1 returns, a generator made from a non-zero seed
\* starts from that seed, and new_random with seed 0 builds the grid that
\* new_random with seed 1 builds; no seed is refused.
C11_ZeroSeedIsOne ==
    det # NoDet =>
        \A r \in 1..2 :
            LET run == det.run[r]
                eff == IF det.seed = U64Zero THEN U64One ELSE det.seed
            IN  /\ run.pc # "panicked"
                /\ (run.pc = "rng" /\ run.outs = <<>>) => run.rng = eff
                /\ \A k \in 1..Len(run.outs) : run.outs[k] = C11_Iter(eff, k)
                /\ (run.pc = "grid" /\ det.seed = U64Zero) =>
                        run.cells = Grid_new_random(det.w, det.h, U64One)

\* a run seeded with 0 has drawn twice and built its grid
C11_Witness ==
    /\ det # NoDet
    /\ det.seed = U64Zero
    /\ det.run[1].pc = "grid"
    /\ Len(det.run[1].outs) = 2
    /\ det.run[1].outs[1] = next_u64(U64One)
    /\ det.w >= 2 /\ det.h >= 2

-----------------------------------------------------------------------------
(* Claims about the arithmetic of SimpleRng (SpecRng) *)

\* s << k, s >> k and s ^ t on 64-bit words: bits shifted out are dropped
C12_Shl(s, k) == Word([i \in Bits |-> IF i >= k THEN Bit(s, i - k) ELSE 0])
C12_Shr(s, k) == Word([i \in Bits |-> IF i + k < WordBits THEN Bit(s, i + k) ELSE 0])
C12_Xor(s, t) == Word([i \in Bits |-> (Bit(s, i) + Bit(t, i)) % 2])

\* s ^= s << 13; s ^= s >> 7; s ^= s << 17
C12_Xorshift(s) ==
    LET s1 == C12_Xor(s, C12_Shl(s, 13))
        s2 == C12_Xor(s1, C12_Shr(s1, 7))
    IN  C12_Xor(s2, C12_Shl(s2, 17))

\* C12: every call on the generator replaces the state by the state after
\* the three xor-shift statements (left 13, right 7, left 17) on 64-bit
\* words, next_u64 returns that new state, and it is the state the next
\* call starts from.
C12_XorshiftSteps ==
    /\ [](out.kind = "u64" => out.val = rng)
    /\ [][calls' = calls + 1 =>
             /\ rng' = C12_Xorshift(rng)
             /\ out'.kind = "u64" => out'.val = C12_Xorshift(rng)]_vars

\* the second next_u64 of a generator seeded with u64::MAX, whose high
\* bits are shifted out
C12_Witness ==
    /\ pc = "ready"
    /\ calls = 2
    /\ out.kind = "u64"
    /\ rng = C12_Xorshift(C12_Xorshift(U64FromBits(Bits)))
    /\ rng # U64FromBits(Bits)

\* C13 as claimed: next_f64 returns a value r with 0 <= r < 1, never 1.0,
\* for every state a generator can be in.
C13_UnitInterval ==
    out.kind = "f64" =>
        /\ ~out.val.is_one
        /\ 0 <= out.val.units /\ out.val.units < Scale

-----------------------------------------------------------------------------
(* Claims about the blots of Grid::new_random (SpecBlot) *)

\* the indices of the cells (x, y) with cx <= x <= min(cx + s - 1, w - 1)
\* and cy <= y <= min(cy + s - 1, h - 1)
C14_Clipped(w, h, cx, cy, s) ==
    { y * w + x : <<x, y>> \in (cx..Min(cx + s - 1, w - 1))
                                 \X (cy..Min(cy + s - 1, h - 1)) }

\* C14: every blot writes only cells of its square clipped at the right
\* and bottom edges, all of them inside the vector, and a cell that a blot
\* changes is one of those; nothing wraps to column 0 or row 0.
C14_BlotClipping ==
    /\ [](out.kind = "blots" =>
            \A i \in 1..Len(out.draws) :
                LET d == out.draws[i]
                IN  /\ d.written \subseteq C14_Clipped(width, height, d.cx, d.cy, d.size)
                    /\ d.written \subseteq 0..(width * height - 1))
    /\ [][(out'.kind = "blots" /\ pc = "blotting" /\ pc' = "blotting") =>
            \A k \in 1..Len(cells) :
                cells'[k] # cells[k] =>
                    (k - 1) \in C14_Clipped(width, height,
                                   out'.draws[Len(out'.draws)].cx,
                                   out'.draws[Len(out'.draws)].cy,
                                   out'.draws[Len(out'.draws)].size)]_vars

\* a blot that starts right of column 0 and below row 0 and overhangs the
\* right and the bottom edge of a built grid
C14_Witness ==
    /\ pc = "ready"
    /\ out.kind = "blots"
    /\ \E i \in 1..Len(out.draws) :
         /\ out.draws[i].cx >= 1 /\ out.draws[i].cy >= 1
         /\ out.draws[i].cx + out.draws[i].size > width
         /\ out.draws[i].cy + out.draws[i].size > height
         /\ cells[1] = Steady

\* the byte k of a u64, and s % n by bytes from the top one down
C15_Byte(s, k) ==
    Bit(s, 8 * k) + 2 * Bit(s, 8 * k + 1) + 4 * Bit(s, 8 * k + 2)
        + 8 * Bit(s, 8 * k + 3) + 16 * Bit(s, 8 * k + 4) + 32 * Bit(s, 8 * k + 5)
        + 64 * Bit(s, 8 * k + 6) + 128 * Bit(s, 8 * k + 7)
RECURSIVE C15_RemFrom(_, _, _)
C15_RemFrom(s, n, k) ==
    IF k > 7 THEN 0 ELSE (C15_RemFrom(s, n, k + 1) * 256 + C15_Byte(s, k)) % n
C15_Rem(s, n) == C15_RemFrom(s, n, 0)

\* C15: every blot has cx = raw % width in [0, width), cy = raw % height in
\* [0, height) and side 3 + raw % 8 in [3, 10], for the three raw values
\* drawn in that order, and every cell of its square that lies in the grid
\* holds (0.0, 1.0) from then on.
C15_BlotDraws ==
    out.kind = "blots" =>
        \A i \in 1..Len(out.draws) :
            LET d == out.draws[i]
            IN  /\ d.cx = C15_Rem(d.raw[1], width)
                /\ 0 <= d.cx /\ d.cx < width
                /\ d.cy = C15_Rem(d.raw[2], height)
                /\ 0 <= d.cy /\ d.cy < height
                /\ d.size = 3 + C15_Rem(d.raw[3], 8)
                /\ 3 <= d.size /\ d.size <= 10
                /\ \A x \in d.cx..(d.cx + d.size - 1), y \in d.cy..(d.cy + d.size - 1) :
                     (x < width /\ y < height) => cells[y * width + x + 1] = Seeded

\* a built grid with a blot wholly inside it and a blot of another side
C15_Witness ==
    /\ pc = "ready"
    /\ out.kind = "blots"
    /\ Len(out.draws) = 5
    /\ \E i, j \in 1..5 :
         /\ out.draws[i].cx + out.draws[i].size <= width
         /\ out.draws[i].cy + out.draws[i].size <= height
         /\ out.draws[j].size # out.draws[i].size
         /\ out.draws[j].raw[1] # out.draws[i].raw[1]

-----------------------------------------------------------------------------
(* Further claims about Grid::step (Spec) *)

\* C16 as claimed: one step with the Spots parameters on the grid that
\* Grid::new returns, for any width, height > 0, changes some cell.
C16_ChangeAfterStep ==
    ( /\ pc = "ready" /\ lastOp.op = "step" /\ stepsDone = 1
      /\ width > 0 /\ height > 0
      /\ cells0 = Grid_new(width, height)
      /\ params = Preset_params("Spots") ) =>
        \E k \in 1..Len(cells) : cells[k] # cells0[k]

-----------------------------------------------------------------------------
(* Claim about parameters outside the documented ranges (SpecGarbage) *)

\* finite parameters with a negative da, db or dt
C17_Garbage(p) ==
    /\ IsFinite(p.da) /\ IsFinite(p.db) /\ IsFinite(p.dt)
    /\ IsFinite(p.feed) /\ IsFinite(p.kill)
    /\ (p.da < 0 \/ p.db < 0 \/ p.dt < 0)

\* C17 as claimed: with finite parameters of which da, db or dt is
\* negative, step and simulate do not fail and every cell is within [0, 1]
\* after each step.
C17_GarbageBounded ==
    (pc # "start" /\ lastOp.op \in {"step", "simulate"} /\ C17_Garbage(params)) =>
        /\ pc = "ready"
        /\ \A k \in 1..Len(cells) : InUnit(cells[k].a) /\ InUnit(cells[k].b)

-----------------------------------------------------------------------------
(* Claim about Grid::averages and Grid::contrast (SpecMetric) *)

\* C18 as claimed: on a field built by Grid::new or Grid::new_random on
\* width, height > 0 and stepped any number of times with valid
\* parameters, both averages are within [0, 1] and contrast is >= 0.
C18_MetricRanges ==
    (pc = "measured" /\ width > 0 /\ height > 0 /\ ValidParams(params)) =>
        /\ out.kind = "averages" => (InUnit(out.val[1]) /\ InUnit(out.val[2]))
        /\ out.kind = "contrast" => FLe(0, out.val)

-----------------------------------------------------------------------------
(* Further claim about Grid::new (SpecNew) *)

\* C19: in the grid Grid::new returns, when its seed square is not empty
\* (min(width, height) >= 10), the centre cell (width/2, height/2) has b > 0
\* and the corner cell (0, 0) has b = 0; the 50 x 50 grid has 2500 cells.
C19_CentreAndCorner ==
    (pc = "ready" /\ lastOp.op = "new" /\ Min(width, height) >= 10) =>
        /\ FGt(cells[(height \div 2) * width + (width \div 2) + 1].b, 0)
        /\ cells[1].b = 0
        /\ (width = 50 /\ height = 50) => Len(cells) = 2500

\* the 50 x 50 grid
C19_Witness ==
    /\ pc = "ready"
    /\ lastOp.op = "new"
    /\ width = 50 /\ height = 50
    /\ cells[25 * 50 + 25 + 1] = Seeded

-----------------------------------------------------------------------------
(* Claim about the preset table (SpecPreset) *)

\* C20: the parameters of the preset picked have da = 1.0, db = 0.5 and
\* dt = 1.0, so da > 0 and db > 0, its display name is not empty, and no
\* other preset has the same (feed, kill) pair.
C20_PresetTable ==
    out.kind = "preset" =>
        /\ out.preset \in Presets
        /\ params = Preset_params(out.preset)
        /\ params.da = One /\ params.db * 2 = One /\ params.dt = One
        /\ FGt(params.da, 0) /\ FGt(params.db, 0)
        /\ out.name = Preset_name(out.preset) /\ out.name # ""
        /\ \A q \in Presets \ {out.preset} :
             <<Preset_params(q).feed, Preset_params(q).kill>>
                # <<params.feed, params.kill>>

\* the Worms preset was picked and a grid simulated with it
C20_Witness ==
    /\ out.kind = "preset"
    /\ out.preset = "Worms"
    /\ pc = "ready"
    /\ lastOp.op = "simulate"
    /\ stepsDone = 2
    /\ cells # cells0

-----------------------------------------------------------------------------
(* lsystems::generate (src/src/categories/lsystems.rs), one character of   *)
(* the current string at a time (SpecLsys).  A String is the tuple of its  *)
(* characters.                                                             *)

MaxIter == 2        \* generate is asked for 0..MaxIter iterations

Rule(from, to) == [from |-> from, to |-> to]

\* lsystems::tree, koch_curve, sierpinski_arrowhead, dragon_curve, plant
tree ==
    [name |-> "Fractal Tree", axiom |-> <<"0">>,
     rules |-> << Rule("1", <<"1", "1">>),
                  Rule("0", <<"1", "[", "0", "]", "0">>) >>]
koch_curve ==
    [name |-> "Koch Curve", axiom |-> <<"F">>,
     rules |-> << Rule("F", <<"F", "+", "F", "-", "F", "-", "F", "+", "F">>) >>]
sierpinski_arrowhead ==
    [name |-> "Sierpinski Arrowhead", axiom |-> <<"A">>,
     rules |-> << Rule("A", <<"B", "-", "A", "-", "B">>),
                  Rule("B", <<"A", "+", "B", "+", "A">>) >>]
plant ==
    [name |-> "Plant", axiom |-> <<"X">>,
     rules |-> << Rule("X", <<"F", "+", "[", "[", "X", "]", "-", "X", "]", "-",
                             "F", "[", "-", "F", "X", "]", "+", "X">>),
                  Rule("F", <<"F", "F">>) >>]
dragon_curve ==
    [name |-> "Dragon Curve", axiom |-> <<"F", "X">>,
     rules |-> << Rule("X", <<"X", "+", "Y", "F", "+">>),
                  Rule("Y", <<"-", "F", "X", "-", "Y">>) >>]

\* systems a caller can build: two rules for one character, a rule whose
\* text holds its own character and another rule's, an empty text, an
\* empty axiom
twice ==
    [name |-> "twice", axiom |-> <<"A", "x", "B">>,
     rules |-> << Rule("A", <<"A", "B">>), Rule("A", <<"x">>),
                  Rule("B", <<"A">>) >>]
eraser ==
    [name |-> "eraser", axiom |-> <<"A", "B", "A">>,
     rules |-> << Rule("A", <<>>), Rule("B", <<"B", "A", "B">>) >>]
empty_axiom ==
    [name |-> "empty", axiom |-> <<>>, rules |-> << Rule("A", <<"A", "A">>) >>]

LSystems ==
    {tree, koch_curve, sierpinski_arrowhead, dragon_curve, plant,
     twice, eraser, empty_axiom}

\* a slip in the rule loop: no break, so the last matching rule also writes
rewrite_char_all(rules, ch) ==
    IF \E i \in 1..Len(rules) : rules[i].from = ch
    THEN LET first == CHOOSE i \in 1..Len(rules) :
                        /\ rules[i].from = ch
                        /\ \A j \in 1..(i - 1) : rules[j].from # ch
             last == CHOOSE i \in 1..Len(rules) :
                        /\ rules[i].from = ch
                        /\ \A j \in (i + 1)..Len(rules) : rules[j].from # ch
         IN  IF first = last THEN rules[first].to
             ELSE rules[first].to \o rules[last].to
    ELSE <<ch>>

\* lines 122-132: what one character of current appends to next
rewrite_char(rules, ch) ==
    IF \E i \in 1..Len(rules) : rules[i].from = ch
    THEN rules[CHOOSE i \in 1..Len(rules) :
                  /\ rules[i].from = ch
                  /\ \A j \in 1..(i - 1) : rules[j].from # ch].to
    ELSE <<ch>>

\* line 118: let mut current = system.axiom.clone(), and line 120 of the
\* first iteration
GenBegin(sys, n) ==
    /\ pc = "start"
    /\ pc' = "generating"
    /\ out' = [kind |-> "generate", system |-> sys, n |-> n, iter |-> 0,
               current |-> sys.axiom, next |-> <<>>, pos |-> 0]
    /\ lastOp' = Op("generate", n)
    /\ UNCHANGED <<width, height, cells, params, cells0, stepsDone,
                   got, stepVars, rng, calls, det>>

\* lines 121-133 for the next character of current
GenChar ==
    /\ pc = "generating"
    /\ out.iter < out.n
    /\ out.pos < Len(out.current)
    /\ out' = [out EXCEPT
                 !.next = @ \o rewrite_char(out.system.rules, out.current[out.pos + 1]),
                 !.pos = @ + 1]
    /\ UNCHANGED <<gridVars, got, stepVars, rng, calls, det>>

\* line 134: current = next, at the end of the inner loop
GenIterEnd ==
    /\ pc = "generating"
    /\ out.iter < out.n
    /\ out.pos = Len(out.current)
    /\ out' = [out EXCEPT !.current = out.next, !.next = <<>>, !.pos = 0,
                          !.iter = @ + 1]
    /\ UNCHANGED <<gridVars, got, stepVars, rng, calls, det>>

\* line 136: current is returned after the last iteration
GenReturn ==
    /\ pc = "generating"
    /\ out.iter = out.n
    /\ pc' = "ready"
    /\ out' = [kind |-> "generated", system |-> out.system, n |-> out.n,
               val |-> out.current]
    /\ UNCHANGED <<width, height, cells, params, cells0, stepsDone, lastOp,
                   got, stepVars, rng, calls, det>>

NextLsys ==
    \/ \E sys \in LSystems, n \in 0..MaxIter : GenBegin(sys, n)
    \/ GenChar
    \/ GenIterEnd
    \/ GenReturn

InitLsys == Init /\ params = Preset_params("Spots")

SpecLsys == InitLsys /\ [][NextLsys]_vars

\* the text the first rule for ch gives, or ch itself
C21_Image(rules, ch) ==
    LET m == { i \in 1..Len(rules) : rules[i].from = ch }
    IN  IF m = {} THEN <<ch>>
        ELSE rules[CHOOSE i \in m : \A j \in m : i <= j].to

\* the images of the characters lo..hi of str, side by side
RECURSIVE C21_Pass(_, _, _, _)
C21_Pass(rules, str, lo, hi) ==
    IF lo > hi THEN <<>>
    ELSE IF lo = hi THEN C21_Image(rules, str[lo])
    ELSE C21_Pass(rules, str, lo, (lo + hi) \div 2)
            \o C21_Pass(rules, str, (lo + hi) \div 2 + 1, hi)

\* n parallel passes over the axiom
RECURSIVE C21_Generate(_, _)
C21_Generate(sys, n) ==
    IF n = 0 THEN sys.axiom
    ELSE LET prev == C21_Generate(sys, n - 1)
         IN  C21_Pass(sys.rules, prev, 1, Len(prev))

\* C21: generate returns the axiom for 0 iterations and otherwise the
\* result of n passes, each replacing every character of the whole string
\* at once by the text of its first rule, or by itself when it has none;
\* the tree gives "0", "1[0]0", "11[1[0]0]1[0]0".
C21_ParallelRewrite ==
    out.kind = "generated" =>
        /\ out.val = C21_Generate(out.system, out.n)
        /\ out.n = 0 => out.val = out.system.axiom
        /\ (out.system = tree /\ out.n = 1) => out.val = <<"1", "[", "0", "]", "0">>
        /\ (out.system = tree /\ out.n = 2) =>
              out.val = <<"1", "1", "[", "1", "[", "0", "]", "0", "]",
                          "1", "[", "0", "]", "0">>

\* two iterations of a system with two rules for one character, a
\* character without a rule, and texts that hold ruled characters
C21_Witness ==
    /\ out.kind = "generated"
    /\ out.system = twice
    /\ out.n = 2
    /\ out.val = <<"A", "B", "A", "x", "A", "B">>

-----------------------------------------------------------------------------
(* chaos::lorenz_attractor (src/src/categories/chaos.rs), one pass of its  *)
(* loop at a time (SpecLorenz)                                             *)

MaxLorenzSteps == 5     \* lorenz_attractor is asked for 0..MaxLorenzSteps points

Point3D(x, y, z) == [x |-> x, y |-> y, z |-> z]
LorenzParams(sigma, rho, beta, dt) ==
    [sigma |-> sigma, rho |-> rho, beta |-> beta, dt |-> dt]

\* LorenzParams::default(): 10.0, 28.0, 8.0 / 3.0, 0.01
LorenzParams_default ==
    LorenzParams(10 * One, 28 * One, FDiv(8 * One, 3 * One), One \div 100)

LorenzParamSet == {LorenzParams_default, LorenzParams(One, 2 * One, One, One \div 2)}
LorenzInitials ==
    {Point3D(One, One, One), Point3D(0, One, 0), Point3D(-One, 2 * One, 5 * One)}

\* lines 45-52: the point after p
lorenz_step(lp, p) ==
    LET dx == FMul(lp.sigma, FSub(p.y, p.x))
        dy == FSub(FMul(p.x, FSub(lp.rho, p.z)), p.y)
        dz == FSub(FMul(p.x, p.y), FMul(lp.beta, p.z))
    IN  Point3D(FAdd(p.x, FMul(dx, lp.dt)),
                FAdd(p.y, FMul(dy, lp.dt)),
                FAdd(p.z, FMul(dz, lp.dt)))

\* lines 40-42: points holds the initial point; the loop variable starts at 1
LorenzBegin(lp, steps, initial) ==
    /\ pc = "start"
    /\ pc' = "integrating"
    /\ out' = [kind |-> "lorenz", params |-> lp, steps |-> steps,
               initial |-> initial, p |-> initial, points |-> <<initial>>, i |-> 1]
    /\ lastOp' = Op("lorenz_attractor", steps)
    /\ UNCHANGED <<width, height, cells, params, cells0, stepsDone,
                   got, stepVars, rng, calls, det>>

\* lines 44-54: one pass of for _ in 1..steps
LorenzStep ==
    /\ pc = "integrating"
    /\ out.i < out.steps
    /\ LET q == lorenz_step(out.params, out.p)
       IN  out' = [out EXCEPT !.p = q, !.points = Append(@, q), !.i = @ + 1]
    /\ UNCHANGED <<gridVars, got, stepVars, rng, calls, det>>

\* line 55: points is returned when the range 1..steps is used up
LorenzReturn ==
    /\ pc = "integrating"
    /\ out.i >= out.steps
    /\ pc' = "ready"
    /\ out' = [kind |-> "trajectory", params |-> out.params, steps |-> out.steps,
               initial |-> out.initial, val |-> out.points]
    /\ UNCHANGED <<width, height, cells, params, cells0, stepsDone, lastOp,
                   got, stepVars, rng, calls, det>>

NextLorenz ==
    \/ \E lp \in LorenzParamSet, steps \in 0..MaxLorenzSteps,
           initial \in LorenzInitials : LorenzBegin(lp, steps, initial)
    \/ LorenzStep
    \/ LorenzReturn

InitLorenz == Init /\ params = Preset_params("Spots")

SpecLorenz == InitLorenz /\ [][NextLorenz]_vars

\* the forward-Euler successor of point p
C22_Euler(lp, p) ==
    Point3D(FAdd(p.x, FMul(FMul(lp.sigma, FSub(p.y, p.x)), lp.dt)),
            FAdd(p.y, FMul(FSub(FMul(p.x, FSub(lp.rho, p.z)), p.y), lp.dt)),
            FAdd(p.z, FMul(FSub(FMul(p.x, p.y), FMul(lp.beta, p.z)), lp.dt)))

\* the trajectory has a first point, the initial one, and Euler successors
C22_Chain ==
    out.kind = "trajectory" =>
        /\ Len(out.val) >= 1
        /\ out.val[1] = out.initial
        /\ \A k \in 2..Len(out.val) : out.val[k] = C22_Euler(out.params, out.val[k - 1])

\* C22 as claimed: the trajectory returned has exactly steps points, for
\* every step count, the first is the initial point and each later one is
\* the forward-Euler successor of the one before.
C22_ExactlySteps ==
    out.kind = "trajectory" => (Len(out.val) = out.steps /\ C22_Chain)

-----------------------------------------------------------------------------
(* fractals::koch_snowflake (src/src/categories/fractals.rs), one segment  *)
(* at a time (SpecKoch).  The coordinates stay within a few hundred, far   *)
(* from any overflow, so they are plain numbers of units.                  *)

MaxKoch == 4        \* koch_snowflake is asked for 0..MaxKoch iterations

Point(x, y) == [x |-> x, y |-> y]

\* x * y and x / y on coordinates
KMul(x, y) == RoundDiv(x * y, Scale)
KDiv(x, y) == RoundDiv(x * Scale, y)

\* (3.0_f64).sqrt(), (PI / 3.0).cos(), (PI / 3.0).sin()
Sqrt3 == 1732
CosPi3 == 500
SinPi3 == 866

\* lines 77-84: the triangle and its closing point
koch_triangle ==
    LET s == 300 * One
        h == KDiv(KMul(s, Sqrt3), 2 * One)
    IN  << Point(0, KDiv(KMul(h, 2 * One), 3 * One)),
           Point(KDiv(s, 2 * One), KDiv(-h, 3 * One)),
           Point(KDiv(-s, 2 * One), KDiv(-h, 3 * One)),
           Point(0, KDiv(KMul(h, 2 * One), 3 * One)) >>

\* lines 89-104: the four points pushed for the window (p1, p2)
koch_segment(p1, p2) ==
    LET dx == p2.x - p1.x
        dy == p2.y - p1.y
        b == Point(p1.x + KDiv(dx, 3 * One), p1.y + KDiv(dy, 3 * One))
        d == Point(p1.x + KDiv(KMul(2 * One, dx), 3 * One),
                   p1.y + KDiv(KMul(2 * One, dy), 3 * One))
        c == Point(b.x + KMul(KDiv(dx, 3 * One), CosPi3) - KMul(KDiv(dy, 3 * One), SinPi3),
                   b.y + KMul(KDiv(dx, 3 * One), SinPi3) + KMul(KDiv(dy, 3 * One), CosPi3))
    IN  <<p1, b, c, d>>

\* a slip: the closing point is not pushed
koch_unclosed(new_points, points) == new_points

\* line 106: new_points.push(*points.last().unwrap())
koch_closed(new_points, points) == Append(new_points, points[Len(points)])

\* lines 77-84, and line 87 of the first iteration
KochBegin(n) ==
    /\ pc = "start"
    /\ pc' = "subdividing"
    /\ out' = [kind |-> "koch", n |-> n, iter |-> 0, points |-> koch_triangle,
               new_points |-> <<>>, pos |-> 1]
    /\ lastOp' = Op("koch_snowflake", n)
    /\ UNCHANGED <<width, height, cells, params, cells0, stepsDone,
                   got, stepVars, rng, calls, det>>

\* lines 88-105 for the next window of points
KochSegment ==
    /\ pc = "subdividing"
    /\ out.iter < out.n
    /\ out.pos < Len(out.points)
    /\ out' = [out EXCEPT
                 !.new_points = @ \o koch_segment(out.points[out.pos],
                                                  out.points[out.pos + 1]),
                 !.pos = @ + 1]
    /\ UNCHANGED <<gridVars, got, stepVars, rng, calls, det>>

\* lines 106-107: the closing point, then points = new_points
KochIterEnd ==
    /\ pc = "subdividing"
    /\ out.iter < out.n
    /\ out.pos = Len(out.points)
    /\ out' = [out EXCEPT !.points = koch_closed(out.new_points, out.points),
                          !.new_points = <<>>, !.pos = 1, !.iter = @ + 1]
    /\ UNCHANGED <<gridVars, got, stepVars, rng, calls, det>>

\* line 109: points is returned after the last iteration
KochReturn ==
    /\ pc = "subdividing"
    /\ out.iter = out.n
    /\ pc' = "ready"
    /\ out' = [kind |-> "snowflake", n |-> out.n, val |-> out.points]
    /\ UNCHANGED <<width, height, cells, params, cells0, stepsDone, lastOp,
                   got, stepVars, rng, calls, det>>

NextKoch ==
    \/ \E n \in 0..MaxKoch : KochBegin(n)
    \/ KochSegment
    \/ KochIterEnd
    \/ KochReturn

InitKoch == Init /\ params = Preset_params("Spots")

SpecKoch == InitKoch /\ [][NextKoch]_vars

\* C23: koch_snowflake(n) returns 3 * 4^n + 1 points, 4 for n = 0, more for
\* a larger n, each iteration turns P points into 4 * (P - 1) + 1 points,
\* and the first and the last point are equal after every iteration.
C23_KochCount ==
    /\ [](out.kind = "snowflake" =>
            /\ Len(out.val) = 3 * (4 ^ out.n) + 1
            /\ out.n = 0 => Len(out.val) = 4
            /\ out.val[1] = out.val[Len(out.val)])
    /\ [](out.kind = "koch" => out.points[1] = out.points[Len(out.points)])
    /\ [][(out.kind = "koch" /\ out'.kind = "koch" /\ out'.iter = out.iter + 1) =>
             /\ Len(out'.points) = 4 * (Len(out.points) - 1) + 1
             /\ Len(out'.points) > Len(out.points)]_vars

\* the curve after two iterations, with a peak off the first segment
C23_Witness ==
    /\ out.kind = "snowflake"
    /\ out.n = 2
    /\ Len(out.val) = 49
    /\ out.val[2] # out.val[1]
    /\ out.val[3].y # out.val[2].y

-----------------------------------------------------------------------------
(* phyllotaxis::count_parastichies (src/src/categories/phyllotaxis.rs),    *)
(* one window of the FIBONACCI table at a time (SpecPara).  The function   *)
(* reads only the length of its slice of elements.                         *)

MaxElements == 15   \* slices of 0..MaxElements elements are all tried

\* constants::FIBONACCI (src/src/lib.rs)
FIBONACCI ==
    <<0, 1, 1, 2, 3, 5, 8, 13, 21, 34, 55, 89, 144, 233, 377, 610, 987,
      1597, 2584, 4181, 6765>>

\* and the 200 elements of test_parastichies_fibonacci, the 500 of
\* Params::default(), and more elements than the largest entry
ElementCounts == (0..MaxElements) \cup {200, 500, 7000}

\* a slip in the comparison: b <= elements.len()
para_keep_le(a, b, len) == a > 0 /\ b > 0 /\ b <= len

\* line 119: a > 0 && b > 0 && b < elements.len()
para_keep(a, b, len) == a > 0 /\ b > 0 /\ b < len

\* lines 111-116: the early return, or an empty result
ParaBegin(len) ==
    /\ pc = "start"
    /\ lastOp' = Op("count_parastichies", len)
    /\ IF len < 10
       THEN /\ pc' = "ready"
            /\ out' = [kind |-> "parastichies", len |-> len, val |-> <<>>]
       ELSE /\ pc' = "counting"
            /\ out' = [kind |-> "counting", len |-> len, result |-> <<>>, pos |-> 1]
    /\ UNCHANGED <<width, height, cells, params, cells0, stepsDone,
                   got, stepVars, rng, calls, det>>

\* lines 117-122 for the next window of FIBONACCI
ParaWindow ==
    /\ pc = "counting"
    /\ out.pos < Len(FIBONACCI)
    /\ LET a == FIBONACCI[out.pos]
           b == FIBONACCI[out.pos + 1]
       IN  out' = [out EXCEPT
                     !.result = IF para_keep(a, b, out.len)
                                THEN Append(@, <<a, b>>) ELSE @,
                     !.pos = @ + 1]
    /\ UNCHANGED <<gridVars, got, stepVars, rng, calls, det>>

\* line 123: result is returned after the last window
ParaReturn ==
    /\ pc = "counting"
    /\ out.pos = Len(FIBONACCI)
    /\ pc' = "ready"
    /\ out' = [kind |-> "parastichies", len |-> out.len, val |-> out.result]
    /\ UNCHANGED <<width, height, cells, params, cells0, stepsDone, lastOp,
                   got, stepVars, rng, calls, det>>

NextPara ==
    \/ \E len \in ElementCounts : ParaBegin(len)
    \/ ParaWindow
    \/ ParaReturn

InitPara == Init /\ params = Preset_params("Spots")

SpecPara == InitPara /\ [][NextPara]_vars

\* <<F(i), F(i + 1)>> of the Fibonacci sequence 0, 1, 1, 2, ...
RECURSIVE C24_FibPair(_)
C24_FibPair(i) ==
    IF i = 0 THEN <<0, 1>>
    ELSE LET q == C24_FibPair(i - 1) IN <<q[2], q[1] + q[2]>>

C24_IsFib(n) == \E i \in 0..20 : C24_FibPair(i)[1] = n

\* C24: the list returned is empty for fewer than 10 elements; otherwise
\* each pair (a, b) is two adjacent entries of FIBONACCI with a > 0 and
\* b < the number of elements, both Fibonacci numbers, and the pairs come
\* in increasing order.
C24_Parastichies ==
    out.kind = "parastichies" =>
        /\ out.len < 10 => out.val = <<>>
        /\ \A k \in 1..Len(out.val) :
             /\ \E i \in 1..(Len(FIBONACCI) - 1) :
                    out.val[k] = <<FIBONACCI[i], FIBONACCI[i + 1]>>
             /\ out.val[k][1] > 0
             /\ out.val[k][2] < out.len
             /\ C24_IsFib(out.val[k][1]) /\ C24_IsFib(out.val[k][2])
        /\ \A k \in 1..(Len(out.val) - 1) :
             \/ out.val[k][1] < out.val[k + 1][1]
             \/ (out.val[k][1] = out.val[k + 1][1] /\ out.val[k][2] < out.val[k + 1][2])

\* the 200 elements of the test: eleven pairs, up to (89, 144)
C24_Witness ==
    /\ out.kind = "parastichies"
    /\ out.len = 200
    /\ Len(out.val) = 11
    /\ out.val[1] = <<1, 1>>
    /\ out.val[11] = <<89, 144>>

-----------------------------------------------------------------------------
(* Claims about fields without inhibitor (Spec) *)

C25_FiniteParams(p) ==
    /\ IsFinite(p.da) /\ IsFinite(p.db) /\ IsFinite(p.dt)
    /\ IsFinite(p.feed) /\ IsFinite(p.kill)

\* C25 as claimed: a grid constructed with every cell at (1.0, 0.0) is the
\* same grid after any number of steps, for any finite parameters.
C25_SteadyFixedPoint ==
    ( /\ pc = "ready" /\ C25_FiniteParams(params)
      /\ \A k \in 1..Len(cells0) : cells0[k] = Steady ) =>
        cells = cells0

\* C26 as claimed: a step or a simulate call on a field in which every b
\* is 0.0 leaves every b at 0.0, for any finite parameters.
C26_NoSpontaneousInhibitor ==
    [][( /\ pc = "ready" /\ C25_FiniteParams(params)
         /\ lastOp'.op \in {"step", "simulate"}
         /\ \A k \in 1..Len(cells) : cells[k].b = 0 ) =>
            \A k \in 1..Len(cells') : cells'[k].b = 0]_vars

-----------------------------------------------------------------------------
(* Claim about Grid::laplacian on the fields of Spec *)

\* the sum over all cells of the Laplacian of channel ch (1 for a, 2 for
\* b) of the field: NaN if a term is NaN, else the plain sum of the terms
C27_LaplacianSum(w, h, cs, ch) ==
    LET lap == [k \in 1..(w * h) |->
                  laplacian(w, h, cs, (k - 1) % w, (k - 1) \div w)[ch]] \o <<>>
    IN  IF \E k \in 1..(w * h) : ~IsFinite(lap[k]) THEN NaN
        ELSE SumRows(lap, w, h, 0)

\* C27 as claimed: on every grid with width, height > 0 the Laplacians of
\* a sum to 0 over the cells, and so do the Laplacians of b.
C27_LaplacianSumsToZero ==
    (pc = "ready" /\ width > 0 /\ height > 0) =>
        /\ C27_LaplacianSum(width, height, cells, 1) = 0
        /\ C27_LaplacianSum(width, height, cells, 2) = 0

-----------------------------------------------------------------------------
(* Claim about the index arithmetic of Grid::new (SpecNew) *)

\* C28: in Grid::new, with s = min(width, height) / 10, the coordinates
\* width/2 - s/2 + dx and height/2 - s/2 + dy do not underflow and are below
\* width and height for all 0 <= dx, dy < s, so the guard rejects nothing
\* and exactly s * s cells are seeded.
C28_SeedIndexArithmetic ==
    (pc = "ready" /\ lastOp.op = "new") =>
        LET s == Min(width, height) \div 10
        IN  /\ width \div 2 >= s \div 2
            /\ height \div 2 >= s \div 2
            /\ \A d \in 0..(s - 1) :
                 /\ seed_coord(width \div 2, s, d) = width \div 2 - s \div 2 + d
                 /\ seed_coord(width \div 2, s, d) \in 0..(width - 1)
                 /\ seed_coord(height \div 2, s, d) = height \div 2 - s \div 2 + d
                 /\ seed_coord(height \div 2, s, d) \in 0..(height - 1)
            /\ Cardinality(seed_indices(width, height)) = s * s
            /\ Cardinality({k \in 1..Len(cells) : cells[k] = Seeded}) = s * s
            /\ Len(cells) = width * height

\* a grid that is not square, with a seed square of side 2
C28_Witness ==
    /\ pc = "ready"
    /\ lastOp.op = "new"
    /\ width = 50 /\ height = 21
    /\ Cardinality({k \in 1..Len(cells) : cells[k] = Seeded}) = 4

-----------------------------------------------------------------------------
(* Claim about what Grid::new_random adds to Grid::new (Spec) *)

\* C29: Grid::new_random(w, h, seed) only adds seeded cells to
\* Grid::new(w, h): every cell that is (0.0, 1.0) in Grid::new(w, h) is
\* (0.0, 1.0) in new_random, every cell that differs between the two is
\* (0.0, 1.0) in new_random, and every cell of either constructed grid is
\* exactly (1.0, 0.0) or (0.0, 1.0).
C29_OnlyAddsSeeds ==
    /\ (pc = "ready" /\ lastOp.op = "new_random") =>
          LET g == Grid_new(width, height)
          IN  /\ Len(cells) = Len(g)
              /\ \A k \in 1..Len(g) :
                   /\ g[k] = Cell(0, One) => cells[k] = Cell(0, One)
                   /\ cells[k] # g[k] => cells[k] = Cell(0, One)
                   /\ cells[k] \in {Cell(One, 0), Cell(0, One)}
                   /\ g[k] \in {Cell(One, 0), Cell(0, One)}
    /\ (pc = "ready" /\ lastOp.op = "new") =>
          \A k \in 1..Len(cells) : cells[k] \in {Cell(One, 0), Cell(0, One)}

\* a 10 x 10 field from new_random: the centre seed of Grid::new is kept,
\* some cell was added by a blot and some cell is still steady
C29_Witness ==
    /\ pc = "ready"
    /\ lastOp.op = "new_random"
    /\ width = 10 /\ height = 10
    /\ Grid_new(10, 10)[56] = Cell(0, One)
    /\ cells[56] = Cell(0, One)
    /\ \E k \in 1..Len(cells) :
         Grid_new(10, 10)[k] = Cell(One, 0) /\ cells[k] = Cell(0, One)
    /\ \E k \in 1..Len(cells) : cells[k] = Cell(One, 0)

=============================================================================
